---- MODULE Spec2Model ----
(***************************************************************************)
(* The retrieval endpoint of Gen-Aistro (src/unnamed/part_000): the corpus *)
(* cache (loadPapers), the filter engine (applyFilters), the MMR ranker    *)
(* (mmrDiversification), input validation (validateInput) and the POST     *)
(* handler that composes them.                                             *)
(*                                                                         *)
(* JavaScript values are tagged records [t |-> <typeof-like tag>, ...].    *)
(* A JS number is [t |-> "number", v |-> n, half |-> b], the value         *)
(* n + 1/2 when b and n otherwise, so that non-integers such as 2.5 exist. *)
(* A numeric vector is [t |-> "array", len |-> n, head |-> <<..>>]: the    *)
(* array of length n whose leading elements are head, the rest zero.       *)
(* A string is a sequence of one-character strings.  An optional integer   *)
(* field is <<>> (absent) or <<n>>.                                        *)
(***************************************************************************)
EXTENDS Integers, Sequences, FiniteSets, TLC

VARIABLES
    papersCache,     \* let papersCache (part_000:40)
    cacheTimestamp,  \* let cacheTimestamp (part_000:41)
    now,             \* the clock Date.now() reads, in ms
    file,            \* public/data/papers.json as the file system holds it
    call,            \* the request being answered and what POST did for it
    probe,           \* a function under test: its arguments, then its result too
    inflight         \* the POST calls in progress when requests overlap

vars == <<papersCache, cacheTimestamp, now, file, call, probe, inflight>>

-----------------------------------------------------------------------------
(* Bounds of the model *)

MaxTicks == 2        \* the clock runs for at most MaxTicks cache lifetimes
MaxInFlight == 2     \* at most MaxInFlight requests overlap
MaxAsks == 2         \* the ask endpoint is called (singly or in bursts) at most MaxAsks times
StartTime == 1000    \* Date.now() when the process starts
Scale == 100         \* a similarity s is held as the integer s * Scale

(* Program constants *)

CACHE_DURATION == 300000   \* 5 * 60 * 1000
EmbeddingDim == 384
DefaultTopK == 5
MinTopK == 1
MaxTopK == 10
MinYear == 1950
MaxYear == 2030
LambdaNum == 3             \* lambda = 0.3 = LambdaNum / LambdaDen
LambdaDen == 10
StatusBadRequest == 400
StatusServerError == 500
StatusOk == 200
RATE_LIMIT_WINDOW == 300000      \* 5 * 60 * 1000
RATE_LIMIT_MAX_REQUESTS == 30
StatusTooManyRequests == 429
DefaultMaxTokens == 800
MaxTokensLimit == 1000
MaxContextCap == 6000
CharsPerToken == 4
ReservedChars == 1000

-----------------------------------------------------------------------------
(* JavaScript values *)

Undefined == [t |-> "undefined"]
Null == [t |-> "null"]
Bool(b) == [t |-> "boolean", b |-> b]
Num(n) == [t |-> "number", v |-> n, half |-> FALSE]
NumHalf(n) == [t |-> "number", v |-> n, half |-> TRUE]
StrOfLen(n) == [t |-> "string", len |-> n]
Vec(n, h) == [t |-> "array", len |-> n, head |-> h]
List(s) == [t |-> "array", items |-> s]
Obj == [t |-> "object"]

\* ToBoolean
Truthy(x) ==
    CASE x.t = "undefined" -> FALSE
      [] x.t = "null" -> FALSE
      [] x.t = "boolean" -> x.b
      [] x.t = "number" -> ~(x.v = 0 /\ ~x.half)
      [] x.t = "string" -> x.len > 0
      [] OTHER -> TRUE

\* ToNumber, for the values a comparison can meet here
ToNum(x) ==
    CASE x.t = "number" -> x
      [] x.t = "boolean" -> Num(IF x.b THEN 1 ELSE 0)
      [] OTHER -> Num(0)     \* null and "" convert to 0

\* n <= x and n < x for an integer n and a JS value x
IntLeq(n, x) == n <= ToNum(x).v
IntLt(n, x) == n < ToNum(x).v \/ (n = ToNum(x).v /\ ToNum(x).half)
\* x < n and x > n for a JS number x and an integer n
NumLt(x, n) == x.v < n
NumGt(x, n) == x.v > n \/ (x.v = n /\ x.half)

-----------------------------------------------------------------------------
(* Strings *)

Lower(c) ==
    CASE c = "A" -> "a"
      [] c = "B" -> "b"
      [] c = "C" -> "c"
      [] OTHER -> c

\* String.prototype.toLowerCase
ToLowerCase(s) == [i \in 1..Len(s) |-> Lower(s[i])]

\* String.prototype.includes
Includes(s, term) ==
    \E i \in 0..(Len(s) - Len(term)) : SubSeq(s, i + 1, i + Len(term)) = term

-----------------------------------------------------------------------------
(* Similarity Scorer: utils/cosine.js *)

RECURSIVE Dot(_, _)
Dot(a, b) == IF a = <<>> \/ b = <<>> THEN 0 ELSE Head(a) * Head(b) + Dot(Tail(a), Tail(b))

\* the integer square root
ISqrt(n) == CHOOSE r \in 0..n : r * r <= n /\ (r + 1) * (r + 1) > n

Norm(a) == ISqrt(Dot(a, a))

\* cosineSimilarity(a, b) * Scale, rounded toward zero; 0 when a norm is 0
cosineSimilarity(a, b) ==
    LET d == Dot(a.head, b.head)
        n == Norm(a.head) * Norm(b.head)
    IN  IF n = 0 THEN 0
        ELSE IF d >= 0 THEN (d * Scale) \div n ELSE -(((-d) * Scale) \div n)

-----------------------------------------------------------------------------
(* Error messages: a message is the sequence of its words *)

\* a load error worded like a validation error
MsgLoadFailed_Invalid == <<"Invalid", "papers", "data">>
MsgLoadFailed == <<"Failed", "to", "load", "papers", "data">>
MsgBadEmbedding == <<"Invalid", "query", "embedding:", "must", "be", "an", "array">>
MsgBadDimension(n) ==
    <<"Invalid", "embedding", "dimension:", "expected", "384,", "got", ToString(n)>>
MsgBadTopK == <<"Invalid", "topK:", "must", "be", "a", "number", "between", "1", "and", "10">>
MsgBadYear == <<"Invalid", "year", "range:", "must", "be", "between", "1950", "and", "2030">>
\* the runtime's TypeError for a call of a method the value does not have
MsgNotAFunction(what) == <<what, "is", "not", "a", "function">>

\* the runtime's TypeError for a method call on a field the record does not have
MsgCannotRead(method) ==
    <<"Cannot", "read", "properties", "of", "undefined", "(reading", method>>

\* error.message.includes(word), for a whole word
MessageIncludes(msg, word) == \E i \in 1..Len(msg) : msg[i] = word

-----------------------------------------------------------------------------
(* Corpus Accessor *)

FileUnreadable == [kind |-> "unreadable"]    \* fs.readFileSync throws
FileUnparsable == [kind |-> "unparsable"]    \* JSON.parse throws
FileJson(v) == [kind |-> "json", value |-> v]

\* a cache of exactly CACHE_DURATION still served (<= for <)
CacheValid_Inclusive(cache, ts, clock) ==
    Truthy(cache) /\ Truthy(ts) /\ (clock - ts.v) <= CACHE_DURATION

\* the cached value is served: it exists and is younger than CACHE_DURATION
CacheValid(cache, ts, clock) ==
    Truthy(cache) /\ Truthy(ts) /\ (clock - ts.v) < CACHE_DURATION

\* a reload that adds the parsed records to the cached ones instead of
\* replacing them (papersCache = papersCache.concat(data))
loadPapers_Appends(cache, ts, clock, f) ==
    IF CacheValid(cache, ts, clock)
    THEN [threw |-> FALSE, value |-> cache, read |-> FALSE, cache |-> cache, ts |-> ts]
    ELSE IF f.kind # "json"
    THEN [threw |-> TRUE, value |-> Undefined, read |-> TRUE, cache |-> cache, ts |-> ts]
    ELSE IF f.value.t = "null"
    THEN [threw |-> TRUE, value |-> Undefined, read |-> TRUE,
          cache |-> f.value, ts |-> Num(clock)]
    ELSE IF cache.t = "array" /\ f.value.t = "array"
    THEN [threw |-> FALSE, value |-> List(cache.items \o f.value.items), read |-> TRUE,
          cache |-> List(cache.items \o f.value.items), ts |-> Num(clock)]
    ELSE [threw |-> FALSE, value |-> f.value, read |-> TRUE,
          cache |-> f.value, ts |-> Num(clock)]

\* loadPapers() at time clock: what it returns or throws (value, threw), whether
\* it went to storage (read), and the cache and timestamp it leaves
loadPapers(cache, ts, clock, f) ==
    IF CacheValid(cache, ts, clock)
    THEN [threw |-> FALSE, value |-> cache, read |-> FALSE, cache |-> cache, ts |-> ts]
    ELSE IF f.kind # "json"
    THEN [threw |-> TRUE, value |-> Undefined, read |-> TRUE, cache |-> cache, ts |-> ts]
    ELSE \* papersCache = data; cacheTimestamp = now; then data.length is read
         IF f.value.t = "null"
         THEN [threw |-> TRUE, value |-> Undefined, read |-> TRUE,
               cache |-> f.value, ts |-> Num(clock)]
         ELSE [threw |-> FALSE, value |-> f.value, read |-> TRUE,
               cache |-> f.value, ts |-> Num(clock)]

-----------------------------------------------------------------------------
(* Input validation *)

\* the limits themselves refused (<= for <, >= for >)
YearOutOfRange_Inclusive(year) ==
    \/ (year.min # <<>> /\ year.min[1] <= MinYear)
    \/ (year.max # <<>> /\ year.max[1] >= MaxYear)

YearOutOfRange(year) ==
    \/ (year.min # <<>> /\ year.min[1] < MinYear)
    \/ (year.max # <<>> /\ year.max[1] > MaxYear)

TopKRejected(topK) ==
    Truthy(topK) /\ (topK.t # "number" \/ NumLt(topK, MinTopK) \/ NumGt(topK, MaxTopK))

\* the dimension check left out
validateInput_NoDimension(queryEmbedding, topK, filter) ==
    IF ~Truthy(queryEmbedding) \/ queryEmbedding.t # "array" THEN MsgBadEmbedding
    ELSE IF TopKRejected(topK) THEN MsgBadTopK
    ELSE IF Truthy(filter) /\ Truthy(filter.year) /\ YearOutOfRange(filter.year)
    THEN MsgBadYear
    ELSE <<>>

\* validateInput: the message of the error it throws, <<>> when it returns
validateInput(queryEmbedding, topK, filter) ==
    IF ~Truthy(queryEmbedding) \/ queryEmbedding.t # "array" THEN MsgBadEmbedding
    ELSE IF queryEmbedding.len # EmbeddingDim THEN MsgBadDimension(queryEmbedding.len)
    ELSE IF TopKRejected(topK) THEN MsgBadTopK
    ELSE IF Truthy(filter) /\ Truthy(filter.year) /\ YearOutOfRange(filter.year)
    THEN MsgBadYear
    ELSE <<>>

-----------------------------------------------------------------------------
(* Filter Engine *)

\* the text of a chunk record that has no text field: p.text is undefined
NoText == <<"(undefined)">>

\* x is an array with at least one element (x && x.length > 0)
NonEmptyList(x) == Truthy(x) /\ Len(x.items) > 0

\* the lower bound taken as exclusive (> for >=)
YearAtLeast_Strict(p, min) == p.year # <<>> /\ p.year[1] # 0 /\ p.year[1] > min

\* p.year && p.year >= min,  p.year && p.year <= max
YearAtLeast(p, min) == p.year # <<>> /\ p.year[1] # 0 /\ p.year[1] >= min
YearAtMost(p, max) == p.year # <<>> /\ p.year[1] # 0 /\ p.year[1] <= max

\* terms.map(term => term.toLowerCase())
LowerTerms(terms) == [i \in 1..Len(terms) |-> ToLowerCase(terms[i])]

\* terms.some(term => text.toLowerCase().includes(term) || title...includes(term))
SomeTermIn(p, terms) ==
    \E i \in 1..Len(terms) :
        \/ Includes(ToLowerCase(p.text), terms[i])
        \/ Includes(ToLowerCase(p.doc_title), terms[i])

InList(x, list) == \E i \in 1..Len(list) : list[i] = x

FilterYearMin(items, filter) ==
    IF Truthy(filter.year) /\ filter.year.min # <<>>
    THEN LET Keep(p) == YearAtLeast(p, filter.year.min[1]) IN SelectSeq(items, Keep)
    ELSE items

\* an inverted range put right: when min exceeds max, min is taken as the
\* upper bound
FilterYearMax_Swapped(items, filter) ==
    IF Truthy(filter.year) /\ filter.year.max # <<>>
    THEN LET upper == IF filter.year.min # <<>> /\ filter.year.min[1] > filter.year.max[1]
                      THEN filter.year.min[1] ELSE filter.year.max[1]
             Keep(p) == YearAtMost(p, upper)
         IN  SelectSeq(items, Keep)
    ELSE items

FilterYearMax(items, filter) ==
    IF Truthy(filter.year) /\ filter.year.max # <<>>
    THEN LET Keep(p) == YearAtMost(p, filter.year.max[1]) IN SelectSeq(items, Keep)
    ELSE items

FilterInclude(items, filter) ==
    IF Truthy(filter.keywords) /\ NonEmptyList(filter.keywords.include)
    THEN LET Keep(p) == SomeTermIn(p, LowerTerms(filter.keywords.include.items))
         IN  SelectSeq(items, Keep)
    ELSE items

FilterExclude(items, filter) ==
    IF Truthy(filter.keywords) /\ NonEmptyList(filter.keywords.exclude)
    THEN LET Keep(p) == ~SomeTermIn(p, LowerTerms(filter.keywords.exclude.items))
         IN  SelectSeq(items, Keep)
    ELSE items

FilterDocIds(items, filter) ==
    IF NonEmptyList(filter.doc_ids)
    THEN LET Keep(p) == InList(p.doc_id, filter.doc_ids.items) IN SelectSeq(items, Keep)
    ELSE items

\* the doc_ids test made on the whole corpus (papers.filter for filtered.filter):
\* it undoes the sub-filters before it
FilterItems_DocIdsOfPapers(items, filter) ==
    IF NonEmptyList(filter.doc_ids)
    THEN FilterDocIds(items, filter)
    ELSE FilterExclude(FilterInclude(FilterYearMax(FilterYearMin(items,
             filter), filter), filter), filter)

\* applyFilters on an array of chunk records, for a filter that is an object
FilterItems(items, filter) ==
    FilterDocIds(FilterExclude(FilterInclude(FilterYearMax(FilterYearMin(items,
        filter), filter), filter), filter), filter)

\* p.text.toLowerCase() throws in a keyword .filter(...) call: some record the
\* year filters kept has no text (the first call made, include or else exclude,
\* evaluates p.text.toLowerCase() for each of them)
KeywordsThrow(items, filter) ==
    /\ Truthy(filter.keywords)
    /\ NonEmptyList(filter.keywords.include) \/ NonEmptyList(filter.keywords.exclude)
    /\ LET kept == FilterYearMax(FilterYearMin(items, filter), filter)
       IN  \E i \in 1..Len(kept) : kept[i].text = NoText

\* some .filter(...) call of applyFilters is executed for this filter
CallsFilter(filter) ==
    \/ (Truthy(filter.year) /\ (filter.year.min # <<>> \/ filter.year.max # <<>>))
    \/ (Truthy(filter.keywords) /\ (NonEmptyList(filter.keywords.include)
                                    \/ NonEmptyList(filter.keywords.exclude)))
    \/ NonEmptyList(filter.doc_ids)

\* applyFilters(papers, filter), papers being whatever loadPapers returned
applyFilters(papers, filter) ==
    IF ~Truthy(filter) THEN [threw |-> FALSE, value |-> papers]
    ELSE IF papers.t = "array"
    THEN IF KeywordsThrow(papers.items, filter)
         THEN [threw |-> TRUE, message |-> MsgCannotRead("'toLowerCase')")]
         ELSE [threw |-> FALSE, value |-> List(FilterItems(papers.items, filter))]
    ELSE IF CallsFilter(filter)
    THEN [threw |-> TRUE, message |-> MsgNotAFunction("filtered.filter")]
    ELSE [threw |-> FALSE, value |-> papers]

-----------------------------------------------------------------------------
(* Ranker / Diversifier *)

\* filteredPapers.map(paper => ({...paper fields..., score}))
Scored(p, queryEmbedding) ==
    [doc_id |-> p.doc_id, doc_title |-> p.doc_title, year |-> p.year, url |-> p.url,
     chunk_id |-> p.chunk_id, text |-> p.text, embedding |-> p.embedding,
     score |-> cosineSimilarity(queryEmbedding, p.embedding)]

Similarities(items, queryEmbedding) ==
    [i \in 1..Len(items) |-> Scored(items[i], queryEmbedding)]

\* The arrays of one request.  papers is the array loadPapers returned, the one
\* papersCache refers to; filtered is the array filteredPapers refers to, which
\* is papers itself (same is TRUE) unless some .filter(...) call of applyFilters
\* made a new one; similarities is the array that .map creates.
NewArrays(papers, filteredPapers, filter) ==
    [papers |-> papers.items,
     filtered |-> filteredPapers.items,
     same |-> ~(Truthy(filter) /\ CallsFilter(filter)),
     similarities |-> <<>>]

\* x goes after every element of the descending sequence that does not score less
InsertDesc(sorted, x) ==
    LET k == Cardinality({i \in 1..Len(sorted) : sorted[i].score >= x.score})
    IN  SubSeq(sorted, 1, k) \o <<x>> \o SubSeq(sorted, k + 1, Len(sorted))

\* the sort left out: the candidates stay in corpus order
SortByScore_Unsorted(s) == s

\* similarities.sort((a, b) => b.score - a.score): descending and stable
RECURSIVE SortByScore(_)
SortByScore(s) ==
    IF Len(s) <= 1 THEN s
    ELSE InsertDesc(SortByScore(SubSeq(s, 1, Len(s) - 1)), s[Len(s)])

\* the records scored and sorted where they are, in the array filteredPapers
\* refers to (p.score = ... for each p, then filteredPapers.sort)
ScoreAndSort_InPlace(arrays, queryEmbedding) ==
    LET sorted == SortByScore(Similarities(arrays.filtered, queryEmbedding))
    IN  [arrays EXCEPT !.filtered = sorted,
                       !.papers = IF arrays.same THEN sorted ELSE @,
                       !.similarities = sorted]

\* const similarities = filteredPapers.map(...); similarities.sort(...): the
\* new array is the one sorted in place, papers and filteredPapers stay as they are
ScoreAndSort(arrays, queryEmbedding) ==
    [arrays EXCEPT !.similarities =
        SortByScore(Similarities(arrays.filtered, queryEmbedding))]

RemoveAt(s, i) == SubSeq(s, 1, i - 1) \o SubSeq(s, i + 1, Len(s))

Max(a, b) == IF a >= b THEN a ELSE b

\* the inner loop over selected: maxSimilarity starts at 0
RECURSIVE maxSimilarity(_, _, _)
maxSimilarity(cand, selected, acc) ==
    IF selected = <<>> THEN acc
    ELSE maxSimilarity(cand, Tail(selected),
                       Max(acc, cosineSimilarity(cand.embedding, Head(selected).embedding)))

\* mmrScore * LambdaDen: lambda * relevance - (1 - lambda) * maxSimilarity
mmrScore(cand, selected) ==
    LambdaNum * cand.score - (LambdaDen - LambdaNum) * maxSimilarity(cand, selected, 0)

\* the for loop over remaining from index i on: bestIdx and bestScore so far,
\* bestScore being -Infinity until found is set
RECURSIVE ScanBest(_, _, _, _, _, _)
ScanBest(remaining, selected, i, bestIdx, found, bestScore) ==
    IF i > Len(remaining) THEN bestIdx
    ELSE LET m == mmrScore(remaining[i], selected)
         IN  IF ~found \/ m > bestScore
             THEN ScanBest(remaining, selected, i + 1, i, TRUE, m)
             ELSE ScanBest(remaining, selected, i + 1, bestIdx, found, bestScore)

PickBest(remaining, selected) == ScanBest(remaining, selected, 1, 1, FALSE, 0)

\* the while loop; steps counts the candidates moved to selected so far
RECURSIVE MmrLoop(_, _, _, _)
MmrLoop(selected, remaining, maxResults, steps) ==
    IF IntLt(Len(selected), maxResults) /\ Len(remaining) > 0
    THEN LET b == PickBest(remaining, selected)
         IN  MmrLoop(Append(selected, remaining[b]), RemoveAt(remaining, b),
                     maxResults, steps + 1)
    ELSE [out |-> selected, steps |-> steps]

\* the early return taken only below maxResults (< for <=)
mmrDiversification_Strict(results, maxResults) ==
    IF IntLt(Len(results), maxResults) THEN [out |-> results, steps |-> 0]
    ELSE IF Len(results) > 0
    THEN MmrLoop(<<Head(results)>>, Tail(results), maxResults, 1)
    ELSE MmrLoop(<<>>, <<>>, maxResults, 0)

\* mmrDiversification(results, queryEmbedding, 0.3, maxResults): the sequence it
\* returns (out) and the number of selection steps it made (steps)
mmrDiversification(results, maxResults) ==
    IF IntLeq(Len(results), maxResults) THEN [out |-> results, steps |-> 0]
    ELSE IF Len(results) > 0
    THEN MmrLoop(<<Head(results)>>, Tail(results), maxResults, 1)
    ELSE MmrLoop(<<>>, <<>>, maxResults, 0)

\* the candidates returned as they are (the destructuring map left out)
StripEmbedding_Kept(c) == c

\* ({ embedding, ...rest }) => rest
StripEmbedding(c) ==
    [doc_id |-> c.doc_id, doc_title |-> c.doc_title, year |-> c.year, url |-> c.url,
     chunk_id |-> c.chunk_id, text |-> c.text, score |-> c.score]

-----------------------------------------------------------------------------
(* Retrieval Endpoint *)

\* the catch block answering with the error alone, no results field
ErrorResponse_NoResults(message) ==
    [status |-> IF MessageIncludes(message, "Invalid")
                THEN StatusBadRequest ELSE StatusServerError,
     error |-> message,
     metadata |-> [error |-> TRUE]]

\* the catch block of POST
ErrorResponse(message) ==
    [status |-> IF MessageIncludes(message, "Invalid")
                THEN StatusBadRequest ELSE StatusServerError,
     error |-> message,
     results |-> <<>>,
     metadata |-> [error |-> TRUE]]

\* total_chunks taken from the filtered set (filteredPapers for papers)
EmptyResponse_FilteredTotal(papers, filter) ==
    [status |-> StatusOk,
     error |-> <<>>,
     results |-> <<>>,
     metadata |-> [total_chunks |-> 0, filtered_chunks |-> 0,
                   filter_applied |-> Truthy(filter)]]

\* the response for an empty filtered set
EmptyResponse(papers, filter) ==
    [status |-> StatusOk,
     error |-> <<>>,
     results |-> <<>>,
     metadata |-> [total_chunks |-> Len(papers.items), filtered_chunks |-> 0,
                   filter_applied |-> Truthy(filter)]]

\* total_chunks read from the shared cache as it was before this call loaded,
\* not from the collection the call's own loadPapers returned
OkResponse_SharedTotal(papers, filteredItems, results, filter) ==
    [status |-> StatusOk,
     error |-> <<>>,
     results |-> results,
     metadata |-> [total_chunks |-> IF papersCache.t = "array"
                                    THEN Len(papersCache.items) ELSE Len(papers.items),
                   filtered_chunks |-> Len(filteredItems),
                   returned_chunks |-> Len(results),
                   filter_applied |-> Truthy(filter),
                   mmr_diversification |-> TRUE]]

\* the response for a ranked result list
OkResponse(papers, filteredItems, results, filter) ==
    [status |-> StatusOk,
     error |-> <<>>,
     results |-> results,
     metadata |-> [total_chunks |-> Len(papers.items),
                   filtered_chunks |-> Len(filteredItems),
                   returned_chunks |-> Len(results),
                   filter_applied |-> Truthy(filter),
                   mmr_diversification |-> TRUE]]

NoLoad == [threw |-> FALSE, value |-> Undefined, read |-> FALSE]

\* const { queryEmbedding, topK = 5, filter } = await req.json()
EffectiveTopK(req) == IF req.topK.t = "undefined" THEN Num(DefaultTopK) ELSE req.topK

\* what POST has done when validateInput has run: nothing but the validation
Validated(req, cache, ts) ==
    [active |-> TRUE, req |-> req, topK |-> EffectiveTopK(req), stage |-> "validate",
     before |-> [cache |-> cache, ts |-> ts],
     loadCalled |-> FALSE, load |-> NoLoad,
     cache |-> cache, ts |-> ts,
     filtered |-> Undefined, sorted |-> <<>>,
     mmr |-> [out |-> <<>>, steps |-> 0],
     response |-> ErrorResponse(validateInput(req.queryEmbedding, EffectiveTopK(req),
                                              req.filter))]

\* POST from loadPapers() on, for a request that passed validateInput
AfterValidation(req, cache, ts, clock, f) ==
    LET topK == EffectiveTopK(req)
        load == loadPapers(cache, ts, clock, f)
        af == applyFilters(load.value, req.filter)
        arrays == ScoreAndSort(NewArrays(load.value, af.value, req.filter),
                               req.queryEmbedding)
        sorted == arrays.similarities
        mmr == mmrDiversification(sorted, topK)
        results == [i \in 1..Len(mmr.out) |-> StripEmbedding(mmr.out[i])]
        loaded == [Validated(req, cache, ts) EXCEPT
                      !.loadCalled = TRUE,
                      !.load = [threw |-> load.threw, value |-> load.value,
                                read |-> load.read],
                      !.cache = load.cache, !.ts = load.ts]
    IN  IF load.threw
        THEN [loaded EXCEPT !.stage = "load", !.response = ErrorResponse(MsgLoadFailed)]
        ELSE IF af.threw
        THEN [loaded EXCEPT !.stage = "filter", !.response = ErrorResponse(af.message)]
        ELSE IF af.value.t = "array" /\ Len(af.value.items) = 0
        THEN [loaded EXCEPT !.stage = "empty", !.filtered = af.value,
                            !.response = EmptyResponse(load.value, req.filter)]
        ELSE IF af.value.t # "array"
        THEN [loaded EXCEPT !.stage = "score", !.filtered = af.value,
                 !.response = ErrorResponse(MsgNotAFunction("filteredPapers.map"))]
        ELSE [loaded EXCEPT !.stage = "ok", !.filtered = af.value,
                 !.cache = List(arrays.papers),
                 !.sorted = sorted, !.mmr = mmr,
                 !.response = OkResponse(load.value, af.value.items, results, req.filter)]

\* the corpus loaded before the input is validated
Handle_LoadFirst(req, cache, ts, clock, f) ==
    LET load == loadPapers(cache, ts, clock, f)
    IN  IF validateInput(req.queryEmbedding, EffectiveTopK(req), req.filter) # <<>>
        THEN [Validated(req, cache, ts) EXCEPT
                 !.loadCalled = TRUE,
                 !.load = [threw |-> load.threw, value |-> load.value, read |-> load.read],
                 !.cache = load.cache, !.ts = load.ts]
        ELSE AfterValidation(req, cache, ts, clock, f)

\* POST for the parsed body req, with the cache (cache, ts), the clock and the
\* file as they are: the response, the cache it leaves, and what it did on the
\* way (stage: where it ended; loadCalled; load: what loadPapers did; filtered,
\* sorted, mmr: the values of filteredPapers, similarities, diversifiedResults)
Handle(req, cache, ts, clock, f) ==
    IF validateInput(req.queryEmbedding, EffectiveTopK(req), req.filter) # <<>>
    THEN Validated(req, cache, ts)
    ELSE AfterValidation(req, cache, ts, clock, f)

-----------------------------------------------------------------------------
(* The corpus files, the chunks in them and the requests of the model *)

QueryA == Vec(EmbeddingDim, <<5, 0>>)
QueryZero == Vec(EmbeddingDim, <<0, 0>>)
\* an array of 384 elements, one of them a string: [5, 0, ..., 0, "x"]
QueryWithString ==
    [t |-> "array", len |-> EmbeddingDim, head |-> <<5, 0>>, nonNumber |-> TRUE]

Chunk1 == [doc_id |-> "d1", doc_title |-> <<"A", "b">>, year |-> <<2019>>, url |-> "u1",
           chunk_id |-> "k1", text |-> <<"a", "B", "c">>,
           embedding |-> Vec(EmbeddingDim, <<4, 3>>)]
Chunk2 == [doc_id |-> "d1", doc_title |-> <<"A", "b">>, year |-> <<2019>>, url |-> "u1",
           chunk_id |-> "k2", text |-> <<"b", "c">>,
           embedding |-> Vec(EmbeddingDim, <<5, 0>>)]
Chunk3 == [doc_id |-> "d2", doc_title |-> <<"C", "a">>, year |-> <<>>, url |-> "u2",
           chunk_id |-> "k3", text |-> <<"c", "a">>,
           embedding |-> Vec(EmbeddingDim, <<0, 5>>)]
Chunk4 == [doc_id |-> "d3", doc_title |-> <<"b", "b">>, year |-> <<2000>>, url |-> "u3",
           chunk_id |-> "k4", text |-> <<"c", "C">>,
           embedding |-> Vec(EmbeddingDim, <<3, 4>>)]
Chunk5 == [doc_id |-> "d2", doc_title |-> <<"C", "a">>, year |-> <<2030>>, url |-> "u2",
           chunk_id |-> "k5", text |-> <<"a">>,
           embedding |-> Vec(EmbeddingDim, <<-3, 4>>)]

\* a record the offline pipeline wrote without its text
Chunk6 == [doc_id |-> "d1", doc_title |-> <<"b", "b">>, year |-> <<2019>>, url |-> "u1",
           chunk_id |-> "k6", text |-> NoText,
           embedding |-> Vec(EmbeddingDim, <<3, 4>>)]

CorpusA == <<Chunk1, Chunk2, Chunk3, Chunk4>>
CorpusB == <<Chunk5, Chunk3, Chunk1>>
CorpusD == <<Chunk4, Chunk6>>

Files ==
    {FileJson(List(CorpusA)), FileJson(List(CorpusB)), FileJson(List(<<>>)),
     FileJson(List(CorpusD)), FileJson(Null), FileJson(Obj), FileJson(Num(0)), FileUnreadable, FileUnparsable}

YearFilter(min, max) == [t |-> "object", min |-> min, max |-> max]
KeywordFilter(include, exclude) == [t |-> "object", include |-> include, exclude |-> exclude]
Filter(year, keywords, doc_ids) ==
    [t |-> "object", year |-> year, keywords |-> keywords, doc_ids |-> doc_ids]

EndpointFilters ==
    {Undefined, Null,
     Filter(Undefined, Undefined, Undefined),
     Filter(YearFilter(<<2000>>, <<>>), Undefined, Undefined),
     Filter(YearFilter(<<>>, <<2019>>), Undefined, List(<<>>)),
     Filter(YearFilter(<<2020>>, <<2021>>), Undefined, Undefined),
     Filter(YearFilter(<<1949>>, <<>>), Undefined, Undefined),
     Filter(YearFilter(<<MinYear>>, <<MaxYear>>), Undefined, Undefined),
     Filter(YearFilter(<<2019>>, <<2000>>), Undefined, Undefined),
     Filter(YearFilter(<<>>, <<2031>>), Undefined, Undefined),
     Filter(Undefined, KeywordFilter(List(<<<<"B">>>>), List(<<>>)), Undefined),
     Filter(YearFilter(<<2019>>, <<>>), KeywordFilter(List(<<<<"b">>>>), Undefined),
            Undefined),
     Filter(Undefined, KeywordFilter(Undefined, List(<<<<"a">>>>)), List(<<"d1", "d2">>))}

BadEmbeddings ==
    {Undefined, Null, Bool(FALSE), StrOfLen(EmbeddingDim), Obj,
     Vec(0, <<>>), Vec(300, <<5, 0>>), Vec(EmbeddingDim + 1, <<5, 0>>)}

TopKs ==
    {Undefined, Null, Bool(FALSE), Bool(TRUE), StrOfLen(0), StrOfLen(1),
     Num(-1), Num(0), NumHalf(0), Num(1), Num(2), NumHalf(2), Num(3), Num(4),
     Num(MaxTopK), NumHalf(MaxTopK), Num(15)}

Request(q, k, f) == [queryEmbedding |-> q, topK |-> k, filter |-> f]

Requests ==
    {Request(q, k, Undefined) : q \in BadEmbeddings, k \in {Undefined, Num(15)}}
    \cup {Request(q, k, f) : q \in {QueryA, QueryZero}, k \in TopKs,
                             f \in {Undefined, Filter(YearFilter(<<2000>>, <<>>),
                                                      Undefined, Undefined)}}
    \cup {Request(QueryA, k, f) : k \in {Undefined, Num(2)}, f \in EndpointFilters}
    \* sent with a filter that keeps no record, so that no score is asked of it
    \cup {Request(QueryWithString, Undefined,
                   Filter(YearFilter(<<2020>>, <<2021>>), Undefined, Undefined))}

-----------------------------------------------------------------------------
(* The state machine *)

Idle == [active |-> FALSE]
NoProbe == [phase |-> "none"]

Slots == 1..MaxInFlight
NoneInFlight == [s \in Slots |-> [phase |-> "idle"]]

Init ==
    /\ papersCache = Null
    /\ cacheTimestamp = Null
    /\ now = StartTime
    /\ file = FileJson(List(CorpusA))
    /\ call = Idle
    /\ probe = NoProbe
    /\ inflight = NoneInFlight

\* a request arrives and POST answers it
POST(req) ==
    /\ ~call.active
    /\ LET h == Handle(req, papersCache, cacheTimestamp, now, file)
       IN  /\ papersCache' = h.cache
           /\ cacheTimestamp' = h.ts
           /\ call' = h
    /\ UNCHANGED <<now, file, probe, inflight>>

\* the response has been sent
Respond ==
    /\ call.active
    /\ call' = Idle
    /\ UNCHANGED <<papersCache, cacheTimestamp, now, file, probe, inflight>>

\* time passes: one ms short of a cache lifetime, or a whole one
Tick(d) ==
    /\ ~call.active
    /\ now + d <= StartTime + MaxTicks * CACHE_DURATION
    /\ now' = now + d
    /\ UNCHANGED <<papersCache, cacheTimestamp, file, call, probe, inflight>>

\* the offline pipeline, or a fault, changes the corpus file
WriteFile(f) ==
    /\ ~call.active
    /\ f # file
    /\ file' = f
    /\ UNCHANGED <<papersCache, cacheTimestamp, now, call, probe, inflight>>

Next ==
    \/ \E req \in Requests : POST(req)
    \/ Respond
    \/ \E d \in {CACHE_DURATION - 1, CACHE_DURATION} : Tick(d)
    \/ \E f \in Files : WriteFile(f)

Spec == Init /\ [][Next]_vars

-----------------------------------------------------------------------------
(* applyFilters on its own: any of the corpora below with any filter built    *)
(* from the sub-filters below                                                 *)

CorpusC == <<Chunk5, Chunk4, Chunk3, Chunk2, Chunk1>>
FilterCorpora == {<<>>, CorpusA, CorpusB, CorpusC}

YearBounds == {<<>>, <<2000>>, <<2019>>, <<2020>>}
YearFilters == {Undefined} \cup {YearFilter(a, b) : a, b \in YearBounds}

TermLists ==
    {Undefined, List(<<>>), List(<<<<"B">>>>), List(<<<<"c", "a">>>>),
     List(<<<<"a", "B", "C">>>>), List(<<<<"A", "B">>, <<"c", "c">>>>)}
KeywordFilters == {Undefined} \cup {KeywordFilter(i, e) : i, e \in TermLists}

DocIdLists ==
    {Undefined, List(<<>>), List(<<"d1">>), List(<<"d3", "d2">>), List(<<"d9">>)}

FilterSpecs ==
    {Undefined, Null}
    \cup {Filter(y, k, d) : y \in YearFilters, k \in KeywordFilters, d \in DocIdLists}

InitFilter ==
    /\ papersCache = Null
    /\ cacheTimestamp = Null
    /\ now = StartTime
    /\ file = FileJson(List(CorpusA))
    /\ call = Idle
    /\ probe \in [phase : {"args"}, papers : FilterCorpora, filter : FilterSpecs]
    /\ inflight = NoneInFlight

\* applyFilters(papers, filter) is called and returns
ApplyFiltersCall ==
    /\ probe.phase = "args"
    /\ probe' = [phase |-> "result", papers |-> probe.papers, filter |-> probe.filter,
                 result |-> applyFilters(List(probe.papers), probe.filter)]
    /\ UNCHANGED <<papersCache, cacheTimestamp, now, file, call, inflight>>

NextFilter == ApplyFiltersCall

SpecFilter == InitFilter /\ [][NextFilter]_vars

-----------------------------------------------------------------------------
(* applyFilters composed: two filters of one sub-filter each (a lower year    *)
(* bound, an upper year bound, an include list, an exclude list or a doc_ids  *)
(* list), applied one after the other in both orders, and the one filter that *)
(* holds both                                                                 *)

GivenYears == YearBounds \ {<<>>}
GivenTerms == TermLists \ {Undefined}
GivenDocIds == DocIdLists \ {Undefined}

SingleFilters ==
    [min |-> {Filter(YearFilter(y, <<>>), Undefined, Undefined) : y \in GivenYears},
     max |-> {Filter(YearFilter(<<>>, y), Undefined, Undefined) : y \in GivenYears},
     include |-> {Filter(Undefined, KeywordFilter(l, Undefined), Undefined) :
                     l \in GivenTerms},
     exclude |-> {Filter(Undefined, KeywordFilter(Undefined, l), Undefined) :
                     l \in GivenTerms},
     doc_ids |-> {Filter(Undefined, Undefined, l) : l \in GivenDocIds}]

SubFilterKinds == DOMAIN SingleFilters

\* the object with the sub-filters of both a and b, which give different ones
MergeYear(a, b) ==
    IF a.t = "undefined" THEN b
    ELSE IF b.t = "undefined" THEN a
    ELSE YearFilter(IF a.min # <<>> THEN a.min ELSE b.min,
                    IF a.max # <<>> THEN a.max ELSE b.max)

MergeKeywords(a, b) ==
    IF a.t = "undefined" THEN b
    ELSE IF b.t = "undefined" THEN a
    ELSE KeywordFilter(IF a.include.t # "undefined" THEN a.include ELSE b.include,
                       IF a.exclude.t # "undefined" THEN a.exclude ELSE b.exclude)

MergeFilters(a, b) ==
    Filter(MergeYear(a.year, b.year), MergeKeywords(a.keywords, b.keywords),
           IF a.doc_ids.t # "undefined" THEN a.doc_ids ELSE b.doc_ids)

\* applyFilters(applyFilters(papers, first), second)
applyFiltersTwice(papers, first, second) ==
    LET r == applyFilters(papers, first)
    IN  IF r.threw THEN r ELSE applyFilters(r.value, second)

InitCompose ==
    /\ papersCache = Null
    /\ cacheTimestamp = Null
    /\ now = StartTime
    /\ file = FileJson(List(CorpusA))
    /\ call = Idle
    /\ inflight = NoneInFlight
    /\ \E k1, k2 \in SubFilterKinds :
          /\ k1 # k2
          /\ probe \in [phase : {"args"}, papers : FilterCorpora,
                         f1 : SingleFilters[k1], f2 : SingleFilters[k2]]

\* the three ways of applying the two sub-filters are called and return
ComposeCall ==
    /\ probe.phase = "args"
    /\ probe' = [phase |-> "result", papers |-> probe.papers,
                 f1 |-> probe.f1, f2 |-> probe.f2,
                 oneTwo |-> applyFiltersTwice(List(probe.papers), probe.f1, probe.f2),
                 twoOne |-> applyFiltersTwice(List(probe.papers), probe.f2, probe.f1),
                 both |-> applyFilters(List(probe.papers),
                                       MergeFilters(probe.f1, probe.f2))]
    /\ UNCHANGED <<papersCache, cacheTimestamp, now, file, call, inflight>>

NextCompose == ComposeCall

SpecCompose == InitCompose /\ [][NextCompose]_vars

-----------------------------------------------------------------------------
(* The endpoint with a corpus file that never changes: requests are repeated  *)
(* while the cache is loaded, served and reloaded, and one earlier call is    *)
(* kept (its body, its response, and whether it read the file)               *)

RepeatRequests ==
    {Request(QueryA, Num(2), Undefined),
     Request(QueryA, Num(0), Undefined),
     Request(QueryZero, Num(3), Undefined),
     Request(QueryA, Undefined, Filter(YearFilter(<<2000>>, <<>>), Undefined, Undefined)),
     Request(QueryA, Num(2), Filter(YearFilter(<<2020>>, <<2021>>), Undefined, Undefined)),
     Request(QueryA, Undefined,
             Filter(YearFilter(<<2019>>, <<>>), KeywordFilter(List(<<<<"b">>>>), Undefined),
                    Undefined)),
     Request(Vec(300, <<5, 0>>), Undefined, Undefined)}

InitRepeat ==
    /\ papersCache = Null
    /\ cacheTimestamp = Null
    /\ now = StartTime
    /\ file \in Files
    /\ call = Idle
    /\ probe = NoProbe
    /\ inflight = NoneInFlight

\* the response has been sent, and this call is the one kept
Keep ==
    /\ call.active
    /\ probe = NoProbe
    /\ probe' = [phase |-> "kept", req |-> call.req, response |-> call.response,
                 loadCalled |-> call.loadCalled, read |-> call.load.read]
    /\ call' = Idle
    /\ UNCHANGED <<papersCache, cacheTimestamp, now, file, inflight>>

NextRepeat ==
    \/ \E req \in RepeatRequests : POST(req)
    \/ Respond
    \/ Keep
    \/ \E d \in {CACHE_DURATION - 1, CACHE_DURATION} : Tick(d)

SpecRepeat == InitRepeat /\ [][NextRepeat]_vars

-----------------------------------------------------------------------------
(* Overlapping requests.  POST is an async function whose only await is       *)
(* req.json() (part_000:179); everything after it, from validateInput to the  *)
(* return, is synchronous and runs to completion on the one JavaScript        *)
(* thread.  A request is therefore in flight twice: while its body is read    *)
(* (the other requests, the clock and the file move on), and between the      *)
(* return of its response and the sending of it.                              *)

ConcFiles == {FileJson(List(CorpusA)), FileJson(List(CorpusB)), FileUnreadable}

ConcRequests ==
    {Request(QueryA, Num(2), Undefined),
     Request(QueryA, Undefined, Filter(YearFilter(<<2000>>, <<>>), Undefined, Undefined)),
     Request(QueryA, Num(2), Filter(YearFilter(<<2020>>, <<2021>>), Undefined, Undefined)),
     Request(Vec(300, <<5, 0>>), Undefined, Undefined)}

\* POST is called for a request; it awaits req.json()
Arrive(s, req) ==
    /\ inflight[s].phase = "idle"
    /\ inflight' = [inflight EXCEPT ![s] = [phase |-> "parsing", req |-> req]]
    /\ UNCHANGED <<papersCache, cacheTimestamp, now, file, call, probe>>

\* req.json() resolves and POST runs to its return statement
Run(s) ==
    /\ inflight[s].phase = "parsing"
    /\ LET h == Handle(inflight[s].req, papersCache, cacheTimestamp, now, file)
       IN  /\ papersCache' = h.cache
           /\ cacheTimestamp' = h.ts
           /\ inflight' = [inflight EXCEPT ![s] =
                  [phase |-> "done", req |-> h.req, stage |-> h.stage,
                   loadCalled |-> h.loadCalled, load |-> h.load,
                   response |-> h.response]]
    /\ UNCHANGED <<now, file, call, probe>>

\* the response of a finished call has been sent
Reply(s) ==
    /\ inflight[s].phase = "done"
    /\ inflight' = [inflight EXCEPT ![s] = [phase |-> "idle"]]
    /\ UNCHANGED <<papersCache, cacheTimestamp, now, file, call, probe>>

NextConc ==
    \/ \E s \in Slots, req \in ConcRequests : Arrive(s, req)
    \/ \E s \in Slots : Run(s)
    \/ \E s \in Slots : Reply(s)
    \/ Tick(CACHE_DURATION)
    \/ \E f \in ConcFiles : WriteFile(f)

SpecConc == Init /\ [][NextConc]_vars

-----------------------------------------------------------------------------
(* mmrDiversification on its own, one pass of its while loop at a time: the   *)
(* candidates are those POST hands it (scored against the query and sorted),  *)
(* maxResults any topK that validateInput lets through                        *)

QueryB == Vec(EmbeddingDim, <<0, 5>>)
QueryC == Vec(EmbeddingDim, <<-3, 4>>)

RankerCorpora == {CorpusA, CorpusB, CorpusC, CorpusC \o <<Chunk6>>}
RankerQueries == {QueryA, QueryB, QueryC, QueryZero}

MaxResultsValues ==
    {k \in (TopKs \ {Undefined}) \cup {Num(DefaultTopK)} : ~TopKRejected(k)}

InitMmr ==
    /\ papersCache = Null
    /\ cacheTimestamp = Null
    /\ now = StartTime
    /\ file = FileJson(List(CorpusA))
    /\ call = Idle
    /\ inflight = NoneInFlight
    /\ \E c \in RankerCorpora, q \in RankerQueries, k \in MaxResultsValues :
          probe = [phase |-> "args", results |-> SortByScore(Similarities(c, q)),
                   maxResults |-> k]

NoPick == [made |-> FALSE]

\* mmrDiversification is entered: the early return, or the first candidate
\* shifted from the copy of results into selected
MmrBegin ==
    /\ probe.phase = "args"
    /\ probe' =
          IF IntLeq(Len(probe.results), probe.maxResults)
          THEN [phase |-> "returned", results |-> probe.results,
                maxResults |-> probe.maxResults, out |-> probe.results,
                selected |-> <<>>, remaining |-> <<>>, picks |-> 0, last |-> NoPick]
          ELSE [phase |-> "loop", results |-> probe.results,
                maxResults |-> probe.maxResults,
                selected |-> <<Head(probe.results)>>, remaining |-> Tail(probe.results),
                picks |-> 0, last |-> NoPick]
    /\ UNCHANGED <<papersCache, cacheTimestamp, now, file, call, inflight>>

\* one pass of the while loop: every remaining candidate gets its redundancy
\* term and its mmrScore, and the best one moves to selected
MmrPick ==
    /\ probe.phase = "loop"
    /\ IntLt(Len(probe.selected), probe.maxResults)
    /\ Len(probe.remaining) > 0
    /\ LET b == PickBest(probe.remaining, probe.selected)
       IN  probe' = [probe EXCEPT
               !.selected = Append(probe.selected, probe.remaining[b]),
               !.remaining = RemoveAt(probe.remaining, b),
               !.picks = probe.picks + 1,
               !.last = [made |-> TRUE, selected |-> probe.selected,
                         remaining |-> probe.remaining, bestIdx |-> b,
                         terms |-> [i \in 1..Len(probe.remaining) |->
                             maxSimilarity(probe.remaining[i], probe.selected, 0)],
                         scores |-> [i \in 1..Len(probe.remaining) |->
                             mmrScore(probe.remaining[i], probe.selected)]]]
    /\ UNCHANGED <<papersCache, cacheTimestamp, now, file, call, inflight>>

\* the loop condition fails and selected is returned
MmrReturn ==
    /\ probe.phase = "loop"
    /\ ~(IntLt(Len(probe.selected), probe.maxResults) /\ Len(probe.remaining) > 0)
    /\ probe' = [phase |-> "returned", results |-> probe.results,
                 maxResults |-> probe.maxResults, out |-> probe.selected,
                 selected |-> probe.selected, remaining |-> probe.remaining,
                 picks |-> probe.picks, last |-> probe.last]
    /\ UNCHANGED <<papersCache, cacheTimestamp, now, file, call, inflight>>

NextMmr == MmrBegin \/ MmrPick \/ MmrReturn

SpecMmr == InitMmr /\ [][NextMmr]_vars

-----------------------------------------------------------------------------
(* The rate limiter of the ask endpoint: rateLimitStore is probe.rateLimitStore, *)
(* a Map from the keys `${ip}_${now}` to the times they were set at             *)

\* what POST reads from x-forwarded-for or x-real-ip, or 'unknown'
IpA == <<"1", ".", "2", ".", "3", ".", "4">>
IpB == <<"1", ".", "2", ".", "3", ".", "4", "0">>
IpUnknown == <<"u", "n", "k", "n", "o", "w", "n">>
Clients == {IpA, IpB, IpUnknown}

\* String.prototype.startsWith
StartsWith(s, prefix) ==
    Len(prefix) <= Len(s) /\ SubSeq(s, 1, Len(prefix)) = prefix

DigitChar(d) == <<"0", "1", "2", "3", "4", "5", "6", "7", "8", "9">>[d + 1]

\* the decimal text of a time in a template literal
RECURSIVE Digits(_)
Digits(n) == IF n < 10 THEN <<DigitChar(n)>>
             ELSE Digits(n \div 10) \o <<DigitChar(n % 10)>>

RateKey(ip, t) == ip \o <<"_">> \o Digits(t)

EmptyStore == [k \in {} |-> 0]

\* the loop that deletes every entry older than the window
CleanOld(store, windowStart) ==
    [k \in {key \in DOMAIN store : ~(store[key] < windowStart)} |-> store[k]]

\* the entries checkRateLimit counts for ip
CountedFor(store, ip, windowStart) ==
    {key \in DOMAIN store : StartsWith(key, ip) /\ store[key] >= windowStart}

checkRateLimit(store, ip, t) ==
    LET windowStart == t - RATE_LIMIT_WINDOW
        cleaned == CleanOld(store, windowStart)
    IN  [store |-> cleaned,
         ok |-> Cardinality(CountedFor(cleaned, ip, windowStart)) < RATE_LIMIT_MAX_REQUESTS]

\* Map.prototype.set under the key made of ip and the clock
addRateLimit(store, ip, t) ==
    [k \in DOMAIN store \cup {RateKey(ip, t)} |->
        IF k = RateKey(ip, t) THEN t ELSE store[k]]

\* what the handler may answer once the rate check has passed
PassedStatuses == {StatusOk, StatusServerError, StatusTooManyRequests}

NoAsk == [made |-> FALSE]

\* one call of the ask endpoint's POST by ip at time t; rest is the status
\* the handler ends with when the rate check passes
AskAt(st, ip, t, rest) ==
    LET checked == checkRateLimit(st.rateLimitStore, ip, t)
    IN  [st EXCEPT
           !.rateLimitStore = IF checked.ok THEN addRateLimit(checked.store, ip, t)
                              ELSE checked.store,
           !.admitted[ip] = IF checked.ok THEN Append(@, t) ELSE @,
           !.last = [made |-> TRUE, ip |-> ip, at |-> t, before |-> st.rateLimitStore,
                     earlier |-> st.admitted[ip], passed |-> checked.ok,
                     status |-> IF checked.ok THEN rest ELSE StatusTooManyRequests]]

\* n calls by ip, the first at time t, gap milliseconds between successive ones
RECURSIVE AskMany(_, _, _, _, _, _)
AskMany(st, ip, t, n, gap, rest) ==
    IF n = 0 THEN st
    ELSE AskMany(AskAt(st, ip, t, rest), ip, t + gap, n - 1, gap, rest)

BurstSize == RATE_LIMIT_MAX_REQUESTS
BurstGaps == {0, 1}
ElapseSteps == {1, RATE_LIMIT_WINDOW, RATE_LIMIT_WINDOW + 1}

InitRate ==
    /\ papersCache = Null
    /\ cacheTimestamp = Null
    /\ now = StartTime
    /\ file = FileJson(List(CorpusA))
    /\ call = Idle
    /\ inflight = NoneInFlight
    /\ probe = [rateLimitStore |-> EmptyStore, admitted |-> [ip \in Clients |-> <<>>],
                last |-> NoAsk, asks |-> 0, elapsed |-> 0]

Ask(ip, rest) ==
    /\ probe.asks < MaxAsks
    /\ probe' = [AskAt(probe, ip, now, rest) EXCEPT !.asks = @ + 1]
    /\ UNCHANGED <<papersCache, cacheTimestamp, now, file, call, inflight>>

\* BurstSize calls in a row by one client
Burst(ip, gap, rest) ==
    /\ probe.asks < MaxAsks
    /\ probe' = [AskMany(probe, ip, now, BurstSize, gap, rest) EXCEPT !.asks = @ + 1]
    /\ now' = now + gap * (BurstSize - 1)
    /\ UNCHANGED <<papersCache, cacheTimestamp, file, call, inflight>>

Elapse(d) ==
    /\ probe.elapsed < MaxTicks
    /\ now' = now + d
    /\ probe' = [probe EXCEPT !.elapsed = @ + 1]
    /\ UNCHANGED <<papersCache, cacheTimestamp, file, call, inflight>>

NextRate ==
    \/ \E ip \in Clients, rest \in PassedStatuses : Ask(ip, rest)
    \/ \E ip \in Clients, gap \in BurstGaps, rest \in PassedStatuses : Burst(ip, gap, rest)
    \/ \E d \in ElapseSteps : Elapse(d)

SpecRate == InitRate /\ [][NextRate]_vars

-----------------------------------------------------------------------------
(* buildPrompt of the ask endpoint: a text is held by its length, the context *)
(* by the pieces joined into it                                               *)

AskChunk(titleLen, year, textLen) ==
    [doc_title |-> StrOfLen(titleLen), year |-> year, text |-> StrOfLen(textLen)]

\* `[[${chunk.doc_title}${chunk.year ? ` (${chunk.year})` : ''}]]`
CitationLength(chunk) ==
    Len(<<"[", "[">>) + chunk.doc_title.len
      + (IF chunk.year # <<>> /\ chunk.year[1] # 0
           THEN Len(<<" ", "(">>) + Len(Digits(chunk.year[1])) + Len(<<")">>)
           ELSE 0)
      + Len(<<"]", "]">>)

\* `${citation}\n${chunk.text}`
WithCitationLength(chunk) == CitationLength(chunk) + Len(<<"\n">>) + chunk.text.len

Separator == <<"\n", "\n">>

\* chunks.map(...).join('\n\n'), as the pieces of the joined text
RECURSIVE JoinChunks(_)
JoinChunks(chunks) ==
    IF chunks = <<>> THEN <<>>
    ELSE IF Len(chunks) = 1
           THEN <<[piece |-> "chunk", chunk |-> chunks[1], length |-> WithCitationLength(chunks[1])]>>
    ELSE <<[piece |-> "chunk", chunk |-> chunks[1], length |-> WithCitationLength(chunks[1])],
           [piece |-> "separator", length |-> Len(Separator)]>>
           \o JoinChunks(Tail(chunks))

RECURSIVE TextLength(_)
TextLength(pieces) ==
    IF pieces = <<>> THEN 0 ELSE pieces[1].length + TextLength(Tail(pieces))

Min(a, b) == IF a <= b THEN a ELSE b

MaxContextLength(maxTokens) == Min(MaxContextCap, maxTokens * CharsPerToken - ReservedChars)

\* the for loop that collects truncatedChunks
RECURSIVE TruncatedChunks(_, _, _, _)
TruncatedChunks(chunks, truncatedLength, truncatedChunks, maxContextLength) ==
    IF chunks = <<>> THEN truncatedChunks
    ELSE IF truncatedLength + WithCitationLength(chunks[1]) > maxContextLength
           THEN truncatedChunks
    ELSE TruncatedChunks(Tail(chunks), truncatedLength + WithCitationLength(chunks[1]),
                         Append(truncatedChunks, chunks[1]), maxContextLength)

\* buildPrompt up to finalContext
buildPrompt(chunks, maxTokens) ==
    LET contextText == JoinChunks(chunks)
        maxContextLength == MaxContextLength(maxTokens)
        truncates == TextLength(contextText) > maxContextLength
    IN  [truncates |-> truncates,
         maxContextLength |-> maxContextLength,
         finalContext |-> IF truncates
                            THEN JoinChunks(TruncatedChunks(chunks, 0, <<>>, maxContextLength))
                            ELSE contextText]

\* chunks and max_tokens that validateInput of the ask endpoint lets through
AskChunks ==
    {AskChunk(10, <<2020>>, 1078), AskChunk(10, <<>>, 1085), AskChunk(10, <<2020>>, 478),
     AskChunk(2, <<>>, 23), AskChunk(2, <<2020>>, 2200)}
MaxChunks == 3
AskChunkLists == UNION {[1..n -> AskChunks] : n \in 1..MaxChunks}
MaxTokensValues == {1, 100, 260, DefaultMaxTokens, MaxTokensLimit}

InitPrompt ==
    /\ papersCache = Null
    /\ cacheTimestamp = Null
    /\ now = StartTime
    /\ file = FileJson(List(CorpusA))
    /\ call = Idle
    /\ inflight = NoneInFlight
    /\ \E chunks \in AskChunkLists, maxTokens \in MaxTokensValues :
          probe = [phase |-> "args", chunks |-> chunks, maxTokens |-> maxTokens]

BuildPromptCall ==
    /\ probe.phase = "args"
    /\ probe' = [phase |-> "built", chunks |-> probe.chunks, maxTokens |-> probe.maxTokens,
                 out |-> buildPrompt(probe.chunks, probe.maxTokens)]
    /\ UNCHANGED <<papersCache, cacheTimestamp, now, file, call, inflight>>

NextPrompt == BuildPromptCall

SpecPrompt == InitPrompt /\ [][NextPrompt]_vars

-----------------------------------------------------------------------------
(* What the claims speak of *)

Answered == call.active
Ranked == call.active /\ call.stage = "ok"
FilteredCount == Len(call.filtered.items)
Results == call.response.results

\* K as the claims mean it: topK is an integer between 1 and 10
IntegerInRange(k) == k.t = "number" /\ ~k.half /\ k.v >= 1 /\ k.v <= 10

\* the query similarity of a filtered record, computed afresh
QueryScore(p) == cosineSimilarity(call.req.queryEmbedding, p.embedding)

-----------------------------------------------------------------------------
(* C1: for any topK that validation accepts and any non-empty filtered set of *)
(* size N, the result list has exactly min(topK, N) entries and never more    *)
(* than topK.                                                                 *)
C1_ResultCount ==
    (Ranked /\ call.topK.t = "number") =>
        /\ IntLeq(Len(Results), call.topK)
        /\ IF IntLeq(FilteredCount, call.topK)
           THEN Len(Results) = FilteredCount
           ELSE ~ToNum(call.topK).half /\ Len(Results) = ToNum(call.topK).v

(* C2: element 0 of the Ranker's output is a candidate of the filtered set    *)
(* whose query similarity is the maximum over the whole filtered set, whether *)
(* or not MMR selection engages.                                              *)
C2_FirstIsTopScored ==
    Ranked =>
        /\ \E i \in 1..FilteredCount :
              /\ call.filtered.items[i].chunk_id = call.mmr.out[1].chunk_id
              /\ QueryScore(call.filtered.items[i]) = call.mmr.out[1].score
        /\ \A i \in 1..FilteredCount :
              QueryScore(call.filtered.items[i]) <= call.mmr.out[1].score
        /\ Results[1].chunk_id = call.mmr.out[1].chunk_id
        /\ Results[1].score = call.mmr.out[1].score

\* MMR engaged, and the top candidate is not the first record of the filtered set
C2_Witness ==
    /\ Ranked
    /\ call.mmr.steps >= 2
    /\ call.filtered.items[1].chunk_id # Results[1].chunk_id
    /\ \E i \in 1..FilteredCount : QueryScore(call.filtered.items[i]) < Results[1].score

(* C3: when the filtered set has at most K records, the Ranker returns every  *)
(* filtered record exactly once, in descending order of score, and executes   *)
(* no MMR selection step.                                                     *)
C3_NoMmrWithinK ==
    (Ranked /\ IntLeq(FilteredCount, call.topK)) =>
        /\ call.mmr.steps = 0
        /\ Len(call.mmr.out) = FilteredCount
        /\ \A i \in 1..FilteredCount :
              Cardinality({j \in 1..Len(call.mmr.out) :
                              call.mmr.out[j].chunk_id = call.filtered.items[i].chunk_id}) = 1
        /\ \A i, j \in 1..Len(call.mmr.out) :
              i < j => call.mmr.out[i].score >= call.mmr.out[j].score

\* exactly K records, which the sort had to reorder
C3_Witness ==
    /\ Ranked
    /\ call.topK = Num(FilteredCount)
    /\ FilteredCount >= 3
    /\ call.mmr.out[1].chunk_id # call.filtered.items[1].chunk_id

EmbeddingUnfit(q) == q.t # "array" \/ q.len # 384

(* C4: a request whose queryEmbedding is missing, is not an array, or has a   *)
(* length other than 384 is rejected with an input-validation error: status   *)
(* 400, results = [] and no result record.                                    *)
C4_BadEmbeddingRejected ==
    (Answered /\ EmbeddingUnfit(call.req.queryEmbedding)) =>
        /\ call.response.status = 400
        /\ call.response.results = <<>>
        /\ call.stage = "validate"
        /\ ~call.loadCalled
        /\ Head(call.response.error) = "Invalid"

\* an array of 300 numbers was sent and refused
C4_Witness ==
    /\ Answered
    /\ call.req.queryEmbedding.t = "array"
    /\ call.req.queryEmbedding.len = 300
    /\ call.response.status = 400
    /\ file = FileJson(List(CorpusA))

(* C5: every request that supplies a topK which is not an integer in 1..10    *)
(* is rejected with an input-validation error and produces no results.        *)
C5_BadTopKRejected ==
    (Answered /\ call.req.topK.t # "undefined" /\ ~IntegerInRange(call.req.topK)) =>
        /\ call.stage = "validate"
        /\ call.response.status = 400
        /\ call.response.results = <<>>

FailedValidation ==
    validateInput(call.req.queryEmbedding, call.topK, call.req.filter) # <<>>

(* C6: every input-validation failure yields a 400 response and every other   *)
(* failure (corpus load failure, internal error during filtering, scoring or  *)
(* diversification) yields a 500 response; neither is reported as the other.  *)
C6_FailureClasses ==
    Answered =>
        /\ FailedValidation => call.response.status = 400
        /\ (~FailedValidation /\ call.stage \in {"load", "filter", "score"})
              => call.response.status = 500
        /\ call.response.status = 400 => FailedValidation
        /\ call.response.status = 500
              => (~FailedValidation /\ call.stage \in {"load", "filter", "score"})
        /\ call.stage \in {"ok", "empty"} => call.response.status = 200

\* a valid request met an unreadable corpus file
C6_Witness ==
    /\ Answered
    /\ ~FailedValidation
    /\ call.stage = "load"
    /\ file = FileUnreadable
    /\ call.response.status = 500

(* C7: a request that fails validation never calls the Corpus Accessor, never *)
(* reads the backing store, and leaves the cached collection and its          *)
(* timestamp unchanged.                                                       *)
C7_ValidationBeforeCorpus ==
    (Answered /\ FailedValidation) =>
        /\ ~call.loadCalled
        /\ ~call.load.read
        /\ papersCache = call.before.cache
        /\ cacheTimestamp = call.before.ts

\* an invalid request arrived when a call of loadPapers would have reloaded
C7_Witness ==
    /\ Answered
    /\ FailedValidation
    /\ Truthy(papersCache)
    /\ now - cacheTimestamp.v >= CACHE_DURATION
    /\ file.kind = "json"
    /\ file.value # papersCache

FiveMinutes == 5 * 60 * 1000

CachedAndFresh ==
    /\ Truthy(call.before.cache)
    /\ call.before.ts.t = "number"
    /\ now - call.before.ts.v < FiveMinutes

StoreUnusable == file.kind # "json" \/ file.value.t # "array"

(* C9: when the backing store is unreadable or its content is malformed,      *)
(* loadPapers fails with a load error, the previously cached collection and   *)
(* its timestamp are left exactly as they were, and no stale cached data is   *)
(* returned in place of the error.                                            *)
C9_LoadFailureKeepsCache ==
    (Answered /\ call.loadCalled /\ call.load.read /\ StoreUnusable) =>
        /\ call.load.threw
        /\ call.response.error = MsgLoadFailed
        /\ call.response.results = <<>>
        /\ papersCache = call.before.cache
        /\ cacheTimestamp = call.before.ts

Mentions(p, term) ==
    \/ Includes(ToLowerCase(p.text), ToLowerCase(term))
    \/ Includes(ToLowerCase(p.doc_title), ToLowerCase(term))

Given(list) == list.t = "array" /\ list.items # <<>>

InYearRange(p, year) ==
    /\ year.min # <<>> => (p.year # <<>> /\ p.year[1] >= year.min[1])
    /\ year.max # <<>> => (p.year # <<>> /\ p.year[1] <= year.max[1])

Satisfies(p, filter) ==
    filter.t = "object" =>
        /\ filter.year.t = "object" => InYearRange(p, filter.year)
        /\ (filter.keywords.t = "object" /\ Given(filter.keywords.include)) =>
              \E i \in 1..Len(filter.keywords.include.items) :
                  Mentions(p, filter.keywords.include.items[i])
        /\ (filter.keywords.t = "object" /\ Given(filter.keywords.exclude)) =>
              \A i \in 1..Len(filter.keywords.exclude.items) :
                  ~Mentions(p, filter.keywords.exclude.items[i])
        /\ Given(filter.doc_ids) =>
              p.doc_id \in {filter.doc_ids.items[i] : i \in 1..Len(filter.doc_ids.items)}

HasYearFilter(filter) == filter.t = "object" /\ filter.year.t = "object"

(* C11: whenever the filter specification contains a year filter (with min,   *)
(* with max, with both, or with neither bound), every record that has no year *)
(* is excluded from the filtered set.                                         *)
C11_YearlessExcluded ==
    (probe.phase = "result" /\ HasYearFilter(probe.filter)) =>
        /\ ~probe.result.threw
        /\ \A i \in 1..Len(probe.result.value.items) :
              probe.result.value.items[i].year # <<>>

\* the collection loadPapers returned to this request
Loaded == call.load.value

\* the request passed validation and loadPapers returned an array of records
\* as the data model has them (each with its text)
Served ==
    /\ Answered
    /\ ~FailedValidation
    /\ call.loadCalled
    /\ ~call.load.threw
    /\ Loaded.t = "array"
    /\ \A i \in 1..Len(Loaded.items) : Loaded.items[i].text # NoText

(* C12: a valid request whose filter matches no record yields a successful    *)
(* (non-error) response with results = [] and metadata.filtered_chunks = 0,   *)
(* with total_chunks equal to the corpus size; it is never reported as a      *)
(* validation or backend error.                                               *)
C12_NoMatchSucceeds ==
    (Served /\ \A i \in 1..Len(Loaded.items) : ~Satisfies(Loaded.items[i], call.req.filter)) =>
        /\ call.response.status = 200
        /\ call.response.error = <<>>
        /\ call.response.results = <<>>
        /\ call.response.metadata.filtered_chunks = 0
        /\ call.response.metadata.total_chunks = Len(Loaded.items)

\* a year range that no record of a corpus of four falls in
C12_Witness ==
    /\ Served
    /\ Len(Loaded.items) = 4
    /\ call.req.filter.t = "object"
    /\ call.req.filter.year.t = "object"
    /\ call.req.filter.year.min = <<2020>>
    /\ call.req.filter.year.max = <<2021>>
    /\ call.response.status = 200
    /\ call.response.results = <<>>

MetadataFields ==
    {"total_chunks", "filtered_chunks", "returned_chunks", "filter_applied",
     "mmr_diversification"}

(* C13: every successful response carries a metadata object with all five     *)
(* fields total_chunks, filtered_chunks, returned_chunks, filter_applied and   *)
(* mmr_diversification, where total_chunks is the corpus size, filtered_chunks *)
(* the filtered-set size and returned_chunks the length of results; this holds *)
(* also when the filtered set is empty.                                        *)
C13_MetadataComplete ==
    (Answered /\ call.response.status = 200) =>
        /\ MetadataFields \subseteq DOMAIN call.response.metadata
        /\ call.response.metadata.total_chunks = Len(Loaded.items)
        /\ call.response.metadata.filtered_chunks = FilteredCount
        /\ call.response.metadata.returned_chunks = Len(Results)

(* C14: metadata.mmr_diversification reports whether diversification was      *)
(* engaged: it is true exactly when the filtered set was larger than topK (so  *)
(* that greedy MMR selection ran) and false when the sorted set was returned   *)
(* unchanged.                                                                  *)
C14_MmrFlagTruthful ==
    (Ranked /\ IntegerInRange(call.topK)) =>
        /\ call.response.metadata.mmr_diversification = (FilteredCount > call.topK.v)
        /\ call.mmr.out = call.sorted => ~call.response.metadata.mmr_diversification

ResultFields == {"doc_id", "doc_title", "year", "url", "chunk_id", "text", "score"}

\* the result r gives the fields of the chunk p and p's query similarity
ResultOf(r, p) ==
    /\ r.doc_id = p.doc_id
    /\ r.doc_title = p.doc_title
    /\ r.year = p.year
    /\ r.url = p.url
    /\ r.chunk_id = p.chunk_id
    /\ r.text = p.text
    /\ r.score = QueryScore(p)

(* C15: every result record returned by the Retrieval Endpoint is its scored  *)
(* candidate with only the embedding removed: it has no embedding field, and   *)
(* doc_id, doc_title, year, url, chunk_id, text and score are all retained     *)
(* with the values of the chunk it came from.                                  *)
C15_EmbeddingStripped ==
    Ranked =>
        /\ Len(Results) = Len(call.mmr.out)
        /\ \A i \in 1..Len(Results) :
              /\ DOMAIN Results[i] = ResultFields
              /\ "embedding" \notin DOMAIN Results[i]
              /\ \A f \in ResultFields : Results[i][f] = call.mmr.out[i][f]
              /\ \E j \in 1..FilteredCount :
                    /\ call.filtered.items[j].chunk_id = Results[i].chunk_id
                    /\ ResultOf(Results[i], call.filtered.items[j])

\* MMR chose among the candidates, and a chunk without a year is returned
C15_Witness ==
    /\ Ranked
    /\ call.mmr.steps >= 2
    /\ Len(Results) >= 2
    /\ \E i \in 1..Len(Results) : Results[i].year = <<>> /\ Results[i].score < Scale

(* C16: no request changes the cached corpus: after any sequence of search    *)
(* requests (with or without filters, with or without MMR engaging), the       *)
(* cached collection has the same records, in the same order, with the same    *)
(* field values as when it was loaded; sorting and selection act only on       *)
(* per-request copies.  (The cache changes only in a step in which loadPapers  *)
(* reads the file, and then to the file's content as it is.)                   *)
C16_CacheUnchanged ==
    [][papersCache' # papersCache =>
          /\ call'.active
          /\ call'.load.read
          /\ file.kind = "json"
          /\ papersCache' = file.value]_vars

\* a request without a filter was served from the cache, its candidates were
\* reordered by the sort and chosen among by MMR, and the cache is the corpus
\* as the file had it
C16_Witness ==
    /\ Ranked
    /\ ~Truthy(call.req.filter)
    /\ ~call.load.read
    /\ call.mmr.steps >= 2
    /\ call.sorted[1].chunk_id # call.filtered.items[1].chunk_id
    /\ papersCache = List(CorpusA)
    /\ papersCache = call.before.cache

\* the collection the loadPapers call of the request in slot s returned
Snapshot(s) == inflight[s].load.value

Succeeded(s) == inflight[s].phase = "done" /\ inflight[s].response.status = 200

\* the records of the snapshot of slot s that its filter keeps
Kept(s) ==
    {j \in 1..Len(Snapshot(s).items) : Satisfies(Snapshot(s).items[j], inflight[s].req.filter)}

\* the contents the file can be loaded with
LoadableContents == {f.value : f \in {g \in Files : g.kind = "json"}}

(* C17: under any interleaving of concurrent search requests, including       *)
(* requests that reload an expired cache while others are in flight, each      *)
(* request computes its whole response from the single collection its own      *)
(* loadPapers call returned: total_chunks, filtered_chunks and every result    *)
(* come from that one snapshot, and the cache always holds either nothing or   *)
(* one completely loaded collection.                                           *)
C17_OneSnapshot ==
    /\ papersCache = Null \/ papersCache \in LoadableContents
    /\ \A s \in Slots :
          Succeeded(s) =>
              /\ inflight[s].loadCalled
              /\ Snapshot(s).t = "array"
              /\ inflight[s].response.metadata.total_chunks = Len(Snapshot(s).items)
              /\ inflight[s].response.metadata.filtered_chunks = Cardinality(Kept(s))
              /\ \A i \in 1..Len(inflight[s].response.results) :
                    \E j \in Kept(s) :
                        LET r == inflight[s].response.results[i]
                            p == Snapshot(s).items[j]
                        IN  /\ r.chunk_id = p.chunk_id
                            /\ r.doc_id = p.doc_id
                            /\ r.text = p.text
                            /\ r.score = cosineSimilarity(inflight[s].req.queryEmbedding,
                                                           p.embedding)

\* two calls in flight hold responses from different collections: one was
\* answered from the corpus of four, then the cache expired, the file changed,
\* and the other reloaded and was answered from the corpus of three
C17_Witness ==
    \E s, u \in Slots :
        /\ Succeeded(s)
        /\ Succeeded(u)
        /\ Snapshot(s) = List(CorpusA)
        /\ Snapshot(u) = List(CorpusB)
        /\ inflight[u].load.read
        /\ inflight[s].response.metadata.total_chunks = 4
        /\ inflight[u].response.metadata.total_chunks = 3
        /\ Len(inflight[u].response.results) >= 2
        /\ papersCache = List(CorpusB)

IsErrorResponse == Answered /\ (call.response.status # 200 \/ call.response.error # <<>>)

(* C18: every error response of the Retrieval Endpoint (validation or         *)
(* backend) carries results = [] and no result record, even when the failure   *)
(* occurs after filtering or scoring has already produced candidates.          *)
C18_ErrorsCarryNoResults ==
    IsErrorResponse =>
        /\ "results" \in DOMAIN call.response
        /\ call.response.results = <<>>
        /\ DOMAIN call.response.metadata = {"error"}
        /\ call.response.status \in {400, 500}

\* the year filter had kept a record of the loaded corpus when the keyword
\* filter failed on it
C18_Witness ==
    /\ IsErrorResponse
    /\ call.stage = "filter"
    /\ Loaded.t = "array"
    /\ Len(FilterYearMin(Loaded.items, call.req.filter)) \in 1..(Len(Loaded.items) - 1)
    /\ call.response.status = 500
    /\ call.response.results = <<>>

\* the set of records an applyFilters result holds
RecordsOf(r) == {r.value.items[i] : i \in 1..Len(r.value.items)}

(* C19: for any two filter specifications F1 and F2 that each carry one       *)
(* sub-filter, and any corpus, applying F1 then F2, applying F2 then F1, and   *)
(* applying the single filter that contains both sub-filters all keep the same *)
(* set of records.                                                             *)
C19_FiltersCommute ==
    probe.phase = "result" =>
        /\ ~probe.oneTwo.threw /\ ~probe.twoOne.threw /\ ~probe.both.threw
        /\ RecordsOf(probe.oneTwo) = RecordsOf(probe.twoOne)
        /\ RecordsOf(probe.oneTwo) = RecordsOf(probe.both)

\* each sub-filter alone drops a record the other keeps, and together they
\* keep some record but not all
C19_Witness ==
    /\ probe.phase = "result"
    /\ LET all == {probe.papers[i] : i \in 1..Len(probe.papers)}
           one == RecordsOf(applyFilters(List(probe.papers), probe.f1))
           two == RecordsOf(applyFilters(List(probe.papers), probe.f2))
       IN  /\ one \ two # {}
           /\ two \ one # {}
           /\ RecordsOf(probe.both) = one \cap two
           /\ RecordsOf(probe.both) # {}
           /\ one \cup two # all

\* the call in hand has the body of the call kept
SameBodyAgain == probe.phase = "kept" /\ call.active /\ call.req = probe.req

(* C20: two invocations of the Retrieval Endpoint with identical request      *)
(* bodies against an unchanged corpus file return identical results (same      *)
(* records, same order, same scores) and identical metadata, regardless of     *)
(* whether each invocation was served from cache or triggered a reload.        *)
C20_RepeatableResponse ==
    SameBodyAgain =>
        /\ call.response.results = probe.response.results
        /\ call.response.metadata = probe.response.metadata
        /\ call.response.status = probe.response.status
        /\ call.response.error = probe.response.error

\* the call kept read the file and ranked with MMR; the same body is now
\* answered from the cache
C20_Witness ==
    /\ SameBodyAgain
    /\ probe.read
    /\ call.loadCalled
    /\ ~call.load.read
    /\ Ranked
    /\ call.mmr.steps >= 2
    /\ Len(Results) >= 2

\* the pairwise similarities of candidate c to the items of sel
PairwiseSims(c, sel) ==
    {cosineSimilarity(c.embedding, sel[j].embedding) : j \in 1..Len(sel)}

Greatest(S) == CHOOSE m \in S : \A x \in S : x <= m

Picked == probe.phase \in {"loop", "returned"} /\ probe.last.made

(* C21: in each MMR iteration, the redundancy term used for a remaining       *)
(* candidate is the maximum of its pairwise cosine similarities to all         *)
(* already-selected items, for every sign of those similarities (in            *)
(* particular, when all of them are negative the term is that negative         *)
(* maximum).                                                                   *)
C21_RedundancyIsMax ==
    Picked =>
        \A i \in 1..Len(probe.last.remaining) :
            probe.last.terms[i] =
                Greatest(PairwiseSims(probe.last.remaining[i], probe.last.selected))

\* mmr_score * LambdaDen as the claims define it, from the true maximum
MmrScoreOf(c, sel) ==
    LambdaNum * c.score - (LambdaDen - LambdaNum) * Greatest(PairwiseSims(c, sel))

(* C22: in each MMR iteration, the candidate moved from remaining to selected *)
(* is one whose mmr_score (lambda * relevance - (1 - lambda) * max similarity  *)
(* to selected) is maximal among all remaining candidates, and when several    *)
(* remaining candidates share that maximal score the one earliest in the       *)
(* remaining (score-sorted) order is chosen.                                   *)
C22_PickIsBest ==
    Picked =>
        LET rem == probe.last.remaining
            sel == probe.last.selected
            b == probe.last.bestIdx
        IN  /\ probe.selected[Len(probe.selected)] = rem[b]
            /\ \A i \in 1..Len(rem) : MmrScoreOf(rem[i], sel) <= MmrScoreOf(rem[b], sel)
            /\ \A i \in 1..(b - 1) : MmrScoreOf(rem[i], sel) < MmrScoreOf(rem[b], sel)

HasNonNumber(q) == q.t = "array" /\ "nonNumber" \in DOMAIN q

(* C23: a request whose queryEmbedding is an array of length 384 but contains *)
(* an element that is not a number (e.g. a string or null) is rejected with    *)
(* an input-validation error before any scoring takes place.                   *)
C23_NonNumberRejected ==
    (Answered /\ HasNonNumber(call.req.queryEmbedding)
              /\ call.req.queryEmbedding.len = 384) =>
        /\ call.stage = "validate"
        /\ call.response.status = 400
        /\ call.response.results = <<>>

\* a bound of the year filter is given and on the wrong side of its limit
BoundBroken(year) ==
    \/ (year.min # <<>> /\ year.min[1] < 1950)
    \/ (year.max # <<>> /\ year.max[1] > 2030)

\* the request got as far as the check of its year filter and has one
YearFilterChecked ==
    /\ Answered
    /\ ~EmbeddingUnfit(call.req.queryEmbedding)
    /\ ~HasNonNumber(call.req.queryEmbedding)
    /\ call.topK.t = "number" /\ IntegerInRange(call.topK)
    /\ HasYearFilter(call.req.filter)

(* C24: a request with a year filter is accepted only if every given bound    *)
(* respects min >= 1950 and max <= 2030: a min below 1950 or a max above 2030  *)
(* is rejected with an input-validation error, and an absent bound is never a  *)
(* reason for rejection.                                                       *)
C24_YearBoundsValidated ==
    YearFilterChecked =>
        IF BoundBroken(call.req.filter.year)
        THEN /\ call.stage = "validate"
             /\ call.response.status = 400
             /\ call.response.error = MsgBadYear
             /\ call.response.results = <<>>
        ELSE /\ call.stage # "validate"
             /\ call.response.status # 400

\* both limits given exactly are accepted and the request is ranked
C24_Witness ==
    /\ YearFilterChecked
    /\ call.req.filter.year.min = <<1950>>
    /\ call.req.filter.year.max = <<2030>>
    /\ Ranked
    /\ FilteredCount = 3

\* both bounds given, each within its limit, and min above max
InvertedRange(year) ==
    /\ year.min # <<>> /\ year.max # <<>>
    /\ year.min[1] >= 1950 /\ year.min[1] <= 2030
    /\ year.max[1] >= 1950 /\ year.max[1] <= 2030
    /\ year.min[1] > year.max[1]

(* C25: a year filter whose min exceeds its max (both within 1950..2030) is   *)
(* not an error: the request succeeds with an empty result list and            *)
(* metadata.filtered_chunks = 0.                                               *)
C25_InvertedRangeIsEmpty ==
    (Served /\ HasYearFilter(call.req.filter) /\ InvertedRange(call.req.filter.year)) =>
        /\ call.response.status = 200
        /\ call.response.error = <<>>
        /\ call.response.results = <<>>
        /\ call.response.metadata.filtered_chunks = 0

\* the corpus has records of the years min and max themselves
C25_Witness ==
    /\ Served
    /\ HasYearFilter(call.req.filter)
    /\ InvertedRange(call.req.filter.year)
    /\ \E i, j \in 1..Len(Loaded.items) :
          /\ Loaded.items[i].year = call.req.filter.year.min
          /\ Loaded.items[j].year = call.req.filter.year.max
    /\ call.response.status = 200
    /\ call.response.results = <<>>

\* the filter block gives some sub-filter: a year bound, a non-empty keyword
\* list or a non-empty doc_ids list
GivesSubFilter(filter) ==
    /\ filter.t = "object"
    /\ \/ (filter.year.t = "object" /\ (filter.year.min # <<>> \/ filter.year.max # <<>>))
       \/ (filter.keywords.t = "object"
             /\ (Given(filter.keywords.include) \/ Given(filter.keywords.exclude)))
       \/ Given(filter.doc_ids)

(* C26: metadata.filter_applied reports whether a filter was applied: it is   *)
(* false for a request with no filter block and for a request whose filter     *)
(* block is present but empty (no sub-filter, as the dashboard's filter: {}),  *)
(* and true exactly when at least one sub-filter constrained the corpus.       *)
C26_FilterAppliedTruthful ==
    (Answered /\ call.response.status = 200) =>
        call.response.metadata.filter_applied = GivesSubFilter(call.req.filter)

\* the greedy selection has begun (the early return was not taken)
Selecting == probe.phase = "loop" \/ (probe.phase = "returned" /\ probe.selected # <<>>)

\* selected and remaining share no candidate, and between them hold every
\* candidate of results exactly once
Partitioned ==
    LET both == probe.selected \o probe.remaining
    IN  /\ Len(both) = Len(probe.results)
        /\ \A i \in 1..Len(probe.results) :
              Cardinality({j \in 1..Len(both) : both[j] = probe.results[i]}) = 1
        /\ \A i \in 1..Len(probe.selected), j \in 1..Len(probe.remaining) :
              probe.selected[i].chunk_id # probe.remaining[j].chunk_id

(* C27: throughout greedy MMR selection, selected and remaining are disjoint  *)
(* and together contain exactly the scored candidates of the input, each once; *)
(* therefore the final output contains no candidate twice and only candidates  *)
(* of the filtered set, and the loop ends after at most topK - 1 picks.        *)
C27_SelectionPartitions ==
    Selecting =>
        /\ Partitioned
        /\ IntLeq(probe.picks + 1, probe.maxResults)
        /\ probe.phase = "returned" =>
              /\ \A i, j \in 1..Len(probe.out) :
                    i # j => probe.out[i].chunk_id # probe.out[j].chunk_id
              /\ \A i \in 1..Len(probe.out) :
                    \E j \in 1..Len(probe.results) : probe.out[i] = probe.results[j]

\* the calls of ip admitted in the five minutes that start at time t
AdmittedFrom(ip, t) ==
    {j \in 1..Len(probe.admitted[ip]) :
        t <= probe.admitted[ip][j] /\ probe.admitted[ip][j] < t + RATE_LIMIT_WINDOW}

\* the calls of the last caller admitted earlier in the five minutes that end now
EarlierInWindow ==
    {j \in 1..Len(probe.last.earlier) : probe.last.earlier[j] > probe.last.at - RATE_LIMIT_WINDOW}

(* C28: for every client IP and every sequence of requests to the ask        *)
(* endpoint, at most 30 requests from that IP are admitted within any         *)
(* 5-minute window, also when several requests from the same IP arrive at the *)
(* same clock millisecond; every further request in the window receives       *)
(* status 429 and is not recorded.                                            *)
C28_AtMostThirtyAdmitted ==
    /\ \A ip \in Clients : \A i \in 1..Len(probe.admitted[ip]) :
          Cardinality(AdmittedFrom(ip, probe.admitted[ip][i])) <= RATE_LIMIT_MAX_REQUESTS
    /\ (probe.last.made /\ Cardinality(EarlierInWindow) >= RATE_LIMIT_MAX_REQUESTS) =>
          /\ probe.last.status = StatusTooManyRequests
          /\ ~probe.last.passed
          /\ RateKey(probe.last.ip, probe.last.at) \notin DOMAIN probe.rateLimitStore
                \/ RateKey(probe.last.ip, probe.last.at) \in DOMAIN probe.last.before

\* the entries of store that were recorded for ip itself
OwnEntries(store, ip) ==
    [k \in {key \in DOMAIN store : key = RateKey(ip, store[key])} |-> store[k]]

(* C29: rate limiting of the ask endpoint is per client: whether a request    *)
(* from IP a is admitted depends only on the earlier requests recorded for a, *)
(* so requests from another IP b (one whose text has a as a prefix included)  *)
(* never cause a request from a to be rejected.                               *)
C29_PerClient ==
    probe.last.made =>
        probe.last.passed =
            checkRateLimit(OwnEntries(probe.last.before, probe.last.ip),
                           probe.last.ip, probe.last.at).ok

\* the chunks whose text stands in a context, in the order they stand in
ChunksIn(pieces) ==
    LET idx == {i \in 1..Len(pieces) : pieces[i].piece = "chunk"}
        RECURSIVE Collect(_)
        Collect(i) == IF i > Len(pieces) THEN <<>>
                      ELSE IF i \in idx THEN <<pieces[i].chunk>> \o Collect(i + 1)
                      ELSE Collect(i + 1)
    IN  Collect(1)

Truncated == probe.phase = "built" /\ probe.out.truncates

(* C30: when buildPrompt truncates, the context placed in the prompt is built *)
(* from a prefix of the chunks in their original order, each chunk complete,  *)
(* and its total length (the separators between chunks included) does not     *)
(* exceed maxContextLength = min(6000, maxTokens * 4 - 1000).                 *)
C30_TruncatedWithinBudget ==
    Truncated =>
        LET kept == ChunksIn(probe.out.finalContext)
        IN  /\ Len(kept) <= Len(probe.chunks)
            /\ kept = SubSeq(probe.chunks, 1, Len(kept))
            /\ \A i \in 1..Len(probe.out.finalContext) :
                  probe.out.finalContext[i].piece = "chunk" =>
                      probe.out.finalContext[i].length
                          = WithCitationLength(probe.out.finalContext[i].chunk)
            /\ TextLength(probe.out.finalContext)
                  <= Min(MaxContextCap, probe.maxTokens * CharsPerToken - ReservedChars)

====
